---- MODULE Spec2Model ----
(***************************************************************************)
(* Model of the retry utility (backend/app/utils/retry.py) and of the      *)
(* company-lookup workflow (backend/app/workflows/company_lookup.py, run   *)
(* through backend/app/workflows/base.py).                                 *)
(*                                                                         *)
(* Spec          one call of retry_with_backoff against a function whose   *)
(*               outcome at each invocation is chosen by the environment.  *)
(* WorkflowSpec  one run of the generate_query -> search -> extract graph  *)
(*               against scripted LLM and browser services.                *)
(* EngineSpec    one workflow instance used by two callers, one through    *)
(*               run() and one through stream(), with its checkpointer.    *)
(* ConcurrentSpec  two calls of one function decorated by with_retry,      *)
(*               interleaved at their awaits.                              *)
(* AuthSpec      successive requests through get_current_user              *)
(*               (backend/app/middleware/auth.py).                         *)
(* BrowserSpec   successive start(), stop(), new_context() and new_page()  *)
(*               calls on one BrowserManager                               *)
(*               (backend/app/services/browser.py).                        *)
(* BrowserRaceSpec  start() and new_page() called by two concurrent        *)
(*               callers, interleaved at their awaits.                     *)
(* ConcurrentFair  ConcurrentSpec under the event loop's fair scheduling.  *)
(* ProjectSpec   successive requests to the project routes                 *)
(*               (backend/app/api/routes/projects.py).                     *)
(* ChatSpec      successive requests to the chat routes on one project     *)
(*               (backend/app/api/routes/chat.py).                         *)
(***************************************************************************)
EXTENDS Integers, Sequences, FiniteSets, TLC

VARIABLES
    \* ---- retry_with_backoff: parameters of the call
    max_retries, initial_delay, max_delay, exponential_base, exceptions,
    \* ---- retry_with_backoff: locals and observable effects
    retry_pc,          \* "idle" | "attempt" | "sleeping" | "returned" | "raised"
    attempt,           \* loop variable of `for attempt in range(max_retries + 1)`
    last_exception,    \* local last_exception
    delay,             \* local delay (argument of the pending asyncio.sleep)
    call_count,        \* number of invocations of func so far
    history,           \* outcome of each invocation of func, in order
    sleeps,            \* argument of each asyncio.sleep performed, in order
    result,            \* value returned to the caller
    propagated,        \* exception that left retry_with_backoff
    exit_via,          \* statement through which the call ended
    \* ---- workflow run
    graph,             \* BaseWorkflow.graph: "None" or "built"
    wf_pc,             \* position of the run in the graph
    initial_state,     \* the caller's initial_state
    state,             \* the run's state (a function from keys to values)
    llm_script,        \* outcomes of successive llm_client.chat_completion calls
    browser_script,    \* outcomes of successive browser_manager.scrape_page calls
    llm_calls,         \* chat_completion invocations made so far (the calling nodes)
    scrape_calls,      \* scrape_page invocations made so far (the urls)
    updates,           \* one record per node executed, in order
    wf_exception,      \* exception that left run()
    \* ---- one workflow instance shared by several runs
    build_count,       \* number of calls of build() on the instance
    compilations,      \* what each call of compile() returned, in order
    compile_calls,     \* direct calls of compile() made by callers
    checkpoints,       \* the MemorySaver: thread id -> latest saved state
    config,            \* the config each caller passes
    outcome,           \* what each node's service call answers
    runs,              \* the runs: position, state, what was emitted, ...
    \* ---- several calls of one decorated function
    wrapper_calls,     \* each call: position and what it has done so far
    frames,            \* the locals of each activation of retry_with_backoff
    \* ---- get_current_user
    responses,         \* one record per call of get_current_user, in order
    tasks,             \* the tasks made by asyncio.create_task, in order
    \* ---- BrowserManager
    _playwright,       \* BrowserManager._playwright
    _browser,          \* BrowserManager._browser
    handles,           \* number of Playwright and Browser objects made so far
    browser_calls,     \* each caller's position inside its call
    browser_log,       \* one record per call begun on the manager
    browser_events,    \* what was done to Playwright objects, in order
    \* ---- the project and chat routes
    projects,          \* the projects table: id -> row
    api_log,           \* one record per call of a project route, in order
    chat_messages,     \* the chat_messages rows of a project, by created_at
    llm_request        \* the latest messages list sent to the LLM

retry_vars == <<max_retries, initial_delay, max_delay, exponential_base, exceptions,
                retry_pc, attempt, last_exception, delay, call_count, history,
                sleeps, result, propagated, exit_via>>
wf_vars == <<graph, wf_pc, initial_state, state, llm_script, browser_script,
             llm_calls, scrape_calls, updates, wf_exception>>
engine_vars == <<build_count, compilations, compile_calls, checkpoints, config,
                 outcome, runs>>
conc_vars == <<wrapper_calls, frames>>
auth_vars == <<responses, tasks>>
browser_vars == <<_playwright, _browser, handles, browser_calls, browser_log,
                  browser_events>>
api_vars == <<projects, api_log, chat_messages, llm_request>>
vars == <<retry_vars, wf_vars, engine_vars, conc_vars, auth_vars, browser_vars,
          api_vars>>

(***************************************************************************)
(* Bounds                                                                  *)
(***************************************************************************)
MaxRetriesBound == 3
\* length of the scripts of service outcomes (a run calls the LLM at most
\* twice and the browser at most once; the entries beyond those are what
\* the service would answer to a further call)
MaxLlmCalls == 2
MaxScrapeCalls == 2
\* direct calls of compile() by callers, besides those made by run and stream
MaxCompileCalls == 1
\* requests handled through get_current_user
MaxRequests == 2
\* calls made on the browser manager, one after the other
MaxBrowserCalls == 3
\* calls made on the browser manager by concurrent callers
MaxRaceCalls == 2

(***************************************************************************)
(* retry_with_backoff                                                      *)
(***************************************************************************)
\* Delays are counted in tenths of a second.
MaxRetriesChoices == (0 - 1) .. MaxRetriesBound
InitialDelayChoices == {1, 2}
MaxDelayChoices == {1, 3, 600}
ExponentialBaseChoices == {1, 2, 3}
ExceptionTypes == {"RetryableHTTPError", "ValueError"}
ExceptionsChoices == {{"RetryableHTTPError"}, {"RetryableHTTPError", "ValueError"}}
ReturnValues == {"success", "attempt_2"}

None == "None"
NoException == [type |-> "None", id |-> 0]

\* What func does at one invocation: return a value or raise an exception.
FuncOutcomes ==
    [kind : {"return"}, value : ReturnValues, type : {"None"}]
    \cup [kind : {"raise"}, value : {"None"}, type : ExceptionTypes]

RECURSIVE Pow(_, _)
Pow(b, n) == IF n = 0 THEN 1 ELSE b * Pow(b, n - 1)

Min(a, b) == IF a < b THEN a ELSE b

\* Mutant: the delay is never capped by max_delay.
BackoffDelay_Uncapped(init, base, att, cap) == init * Pow(base, att)

\* delay = min(initial_delay * (exponential_base**attempt), max_delay)
BackoffDelay(init, base, att, cap) == Min(init * Pow(base, att), cap)

\* Mutant: a bare `except Exception` that catches every exception.
Caught_Everything(exc, excs) == TRUE

\* `except exceptions as e`: does the except clause catch this exception?
Caught(exc, excs) == exc.type \in excs

\* Mutant: the last attempt is taken to be the one before it.
Exhausted_OneEarly(att, maxr) == att >= maxr - 1

\* `if attempt == max_retries:` the attempt that has just failed was the last one
Exhausted(att, maxr) == att = maxr

\* Mutant: the exhausted call raises a new exception that wraps the last one.
Reraised_Wrapped(e, last) == [type |-> "RuntimeError", id |-> e.id]

\* `raise` inside the except clause re-raises the exception being handled
Reraised(e, last) == e

\* Mutant: func is awaited but its value is dropped.
ReturnedValue_Dropped(v) == None

\* `return await func()` / `return func()`: the value handed to the caller
ReturnedValue(v) == v

\* `for attempt in range(max_retries + 1)`: att is an element of the range
InRange(att, maxr) == 0 <= att /\ att < maxr + 1

RetryInit ==
    /\ max_retries \in MaxRetriesChoices
    /\ initial_delay \in InitialDelayChoices
    /\ max_delay \in MaxDelayChoices
    /\ exponential_base \in ExponentialBaseChoices
    /\ exceptions \in ExceptionsChoices
    /\ retry_pc = "idle"
    /\ attempt = 0
    /\ last_exception = NoException
    /\ delay = 0
    /\ call_count = 0
    /\ history = <<>>
    /\ sleeps = <<>>
    /\ result = None
    /\ propagated = NoException
    /\ exit_via = "none"

\* Lines 64-66, reached when the loop ends without a return or a raise:
\* `if last_exception: raise last_exception`, else the function falls off its
\* end and the caller receives None.
AfterLoop(last) ==
    /\ exit_via' = "after_loop"
    /\ IF last # NoException
         THEN /\ retry_pc' = "raised"
              /\ propagated' = last
              /\ UNCHANGED result
         ELSE /\ retry_pc' = "returned"
              /\ result' = None
              /\ UNCHANGED propagated

\* Entry of retry_with_backoff up to the first iteration of the loop.
RetryCall ==
    /\ retry_pc = "idle"
    /\ last_exception' = NoException
    /\ attempt' = 0
    /\ IF InRange(0, max_retries)
         THEN /\ retry_pc' = "attempt"
              /\ UNCHANGED <<result, propagated, exit_via>>
         ELSE AfterLoop(NoException)
    /\ UNCHANGED <<max_retries, initial_delay, max_delay, exponential_base, exceptions,
                   delay, call_count, history, sleeps>>

\* One iteration of the loop body: func is invoked and either returns, or raises.
RetryAttempt ==
    /\ retry_pc = "attempt"
    /\ \E out \in FuncOutcomes :
         LET e == [type |-> out.type, id |-> call_count + 1] IN
         /\ call_count' = call_count + 1
         /\ history' = Append(history, out)
         /\ IF out.kind = "return"
              THEN /\ retry_pc' = "returned"
                   /\ result' = ReturnedValue(out.value)
                   /\ exit_via' = "return"
                   /\ UNCHANGED <<last_exception, delay, sleeps, propagated>>
              ELSE IF ~Caught(e, exceptions)
              THEN /\ retry_pc' = "raised"
                   /\ propagated' = e
                   /\ exit_via' = "uncaught"
                   /\ UNCHANGED <<last_exception, delay, sleeps, result>>
              ELSE IF Exhausted(attempt, max_retries)
              THEN /\ retry_pc' = "raised"
                   /\ last_exception' = e
                   /\ propagated' = Reraised(e, last_exception)
                   /\ exit_via' = "reraise"
                   /\ UNCHANGED <<delay, sleeps, result>>
              ELSE /\ retry_pc' = "sleeping"
                   /\ last_exception' = e
                   /\ delay' = BackoffDelay(initial_delay, exponential_base,
                                            attempt, max_delay)
                   /\ sleeps' = Append(sleeps, delay')
                   /\ UNCHANGED <<result, propagated, exit_via>>
    /\ UNCHANGED <<max_retries, initial_delay, max_delay, exponential_base, exceptions,
                   attempt>>

\* asyncio.sleep(delay) completes and the for statement takes the next element
\* of the range, or ends.
RetryWake ==
    /\ retry_pc = "sleeping"
    /\ IF InRange(attempt + 1, max_retries)
         THEN /\ attempt' = attempt + 1
              /\ retry_pc' = "attempt"
              /\ UNCHANGED <<result, propagated, exit_via>>
         ELSE /\ AfterLoop(last_exception)
              /\ UNCHANGED attempt
    /\ UNCHANGED <<max_retries, initial_delay, max_delay, exponential_base, exceptions,
                   last_exception, delay, call_count, history, sleeps>>

(***************************************************************************)
(* Texts are sequences of tokens; " " is a whitespace token.               *)
(***************************************************************************)
RECURSIVE LStrip(_)
LStrip(t) == IF t # <<>> /\ Head(t) = " " THEN LStrip(Tail(t)) ELSE t

RECURSIVE RStrip(_)
RStrip(t) ==
    IF t # <<>> /\ t[Len(t)] = " " THEN RStrip(SubSeq(t, 1, Len(t) - 1)) ELSE t

\* str.strip()
Strip(t) == RStrip(LStrip(t))

\* search_query.replace(' ', '+')
ReplaceSpaces(t) == [i \in 1..Len(t) |-> IF t[i] = " " THEN "+" ELSE t[i]]

\* json.loads(response) succeeds (surrounding whitespace is accepted)
JsonValid(t) ==
    LET u == Strip(t) IN Len(u) >= 2 /\ u[1] = "{" /\ u[Len(u)] = "}"

\* json.loads(response): the members of the object
JsonLoads(t) == LET u == Strip(t) IN SubSeq(u, 2, Len(u) - 1)

JsonDecodeMessage == <<"Expecting value">>

(***************************************************************************)
(* Services called by the nodes                                            *)
(***************************************************************************)
\* llm_client.chat_completion: returns a text, raises an Exception, or raises
\* a BaseException that is no Exception (asyncio.CancelledError).
LlmOutcomes ==
    [kind : {"ok"}, val : { <<"Acme", " ", "revenue">>,
                            <<" ", "Acme", " ", "revenue", " ">>,
                            <<" ", "{", "name", "}">> }]
    \cup [kind : {"exc"}, val : { <<"LLM error">> }]
    \cup [kind : {"cancel"}, val : { <<>> }]

\* browser_manager.scrape_page: returns the page (its text), or raises.
BrowserOutcomes ==
    [kind : {"ok"}, val : { <<"Acme", " ", "Inc", " ", "...">> }]
    \cup [kind : {"exc"}, val : { <<"Timeout 10000ms exceeded">> }]
    \cup [kind : {"cancel"}, val : { <<>> }]

Scripts(outcomes, n) == [1..n -> outcomes]

\* The answer of a service to its next call.
NextOutcome(script, calls) ==
    IF Len(calls) + 1 <= Len(script)
      THEN script[Len(calls) + 1]
      ELSE [kind |-> "exc", val |-> <<"no more answers">>]

KeyError == [type |-> "KeyError", id |-> 0]
CancelledError == [type |-> "CancelledError", id |-> 0]

(***************************************************************************)
(* State of a run                                                          *)
(***************************************************************************)
Keys == {"company_name", "search_query", "raw_data", "structured_info", "error"}

EmptyUpdate == [k \in {} |-> <<>>]

Single(k, v) == [x \in {k} |-> v]

\* Mutant: the update replaces the state instead of being merged into it.
Merge_Replace(S, U) == U

\* A node's update overwrites the keys it names and keeps the others
\* (CompanyLookupState declares no reducer).
Merge(S, U) ==
    [k \in (DOMAIN S) \cup (DOMAIN U) |-> IF k \in DOMAIN U THEN U[k] ELSE S[k]]

\* StateGraph(CompanyLookupState): the state of a run has the keys of the
\* schema; the other keys of the caller's input are not part of it.
SchemaInput(s) == [k \in (DOMAIN s) \cap Keys |-> s[k]]

CompanyName == <<"Acme", " ", "Inc">>

\* States a caller may pass to run(): any of these keys, present or absent.
CallerValues == [company_name |-> CompanyName,
                 error |-> <<"Previous error">>,
                 search_query |-> <<"Acme", " ", "news">>]

InitialStates == { [k \in D |-> CallerValues[k]] : D \in SUBSET (DOMAIN CallerValues) }

(***************************************************************************)
(* Nodes (CompanyLookupWorkflow). A node maps the state and the answer of   *)
(* the service it calls to: the exception it raises (NoException if none),  *)
(* the update it returns, whether it called the service, and with what.     *)
(***************************************************************************)
NodeResult(exc, upd, called, arg) ==
    [raised |-> exc, update |-> upd, called |-> called, arg |-> arg]

\* Mutant: the node no longer checks the state for an error.
HasError_Never(s) == FALSE

\* `if "error" in state:` (search_company_info, extract_structured_data)
HasError(s) == "error" \in DOMAIN s

\* Mutant: the except clause lets the service exception escape.
CatchesException_Nothing(out) == FALSE

\* `except Exception as e`: the outcome raises an exception the clause catches
CatchesException(out) == out.kind = "exc"

generate_search_query(s, out) ==
    IF "company_name" \notin DOMAIN s
      THEN NodeResult(KeyError, EmptyUpdate, FALSE, <<>>)
    ELSE IF out.kind = "ok"
      THEN NodeResult(NoException, Single("search_query", Strip(out.val)),
                      TRUE, s["company_name"])
    ELSE IF CatchesException(out)
      THEN NodeResult(NoException,
                      Single("error", <<"Failed to generate search query: ">> \o out.val),
                      TRUE, s["company_name"])
    ELSE NodeResult(CancelledError, EmptyUpdate, TRUE, s["company_name"])

search_company_info(s, out) ==
    IF HasError(s)
      THEN NodeResult(NoException, EmptyUpdate, FALSE, <<>>)
    ELSE IF "company_name" \notin DOMAIN s
      \* state.get("search_query", state["company_name"]) evaluates its default
      THEN NodeResult(KeyError, EmptyUpdate, FALSE, <<>>)
    ELSE
      LET search_query == IF "search_query" \in DOMAIN s
                            THEN s["search_query"] ELSE s["company_name"]
          search_url == <<"https://lite.duckduckgo.com/lite/?q=">>
                          \o ReplaceSpaces(search_query)
      IN  IF out.kind = "ok"
            THEN NodeResult(NoException, Single("raw_data", out.val), TRUE, search_url)
          ELSE IF CatchesException(out)
            THEN NodeResult(NoException,
                            Single("error",
                                   <<"Failed to search for company info: ">> \o out.val),
                            TRUE, search_url)
          ELSE NodeResult(CancelledError, EmptyUpdate, TRUE, search_url)

extract_structured_data(s, out) ==
    IF HasError(s)
      THEN NodeResult(NoException, EmptyUpdate, FALSE, <<>>)
    ELSE IF "company_name" \notin DOMAIN s
      THEN NodeResult(KeyError, EmptyUpdate, FALSE, <<>>)
    ELSE
      LET failed == <<"Failed to extract structured data: ">> IN
      IF out.kind = "ok"
        THEN IF JsonValid(out.val)
               THEN NodeResult(NoException,
                               Single("structured_info", JsonLoads(out.val)),
                               TRUE, s["company_name"])
               ELSE NodeResult(NoException,
                               Single("error", failed \o JsonDecodeMessage),
                               TRUE, s["company_name"])
      ELSE IF CatchesException(out)
        THEN NodeResult(NoException, Single("error", failed \o out.val),
                        TRUE, s["company_name"])
      ELSE NodeResult(CancelledError, EmptyUpdate, TRUE, s["company_name"])

(***************************************************************************)
(* Graph and run                                                           *)
(***************************************************************************)
Nodes == {"generate_query", "search", "extract"}

\* Mutant: search leads back to generate_query.
Edge_Cycle == [START |-> "generate_query", generate_query |-> "search",
               search |-> "generate_query", extract |-> "END"]

\* CompanyLookupWorkflow.build: the edges of the graph
Edge == [START |-> "generate_query", generate_query |-> "search",
         search |-> "extract", extract |-> "END"]

WfIdle ==
    /\ graph = "None"
    /\ wf_pc = "idle"
    /\ state = EmptyUpdate
    /\ llm_calls = <<>>
    /\ scrape_calls = <<>>
    /\ updates = <<>>
    /\ wf_exception = NoException

\* Not part of the specifications of a single call or a single run.
EngineUnused ==
    /\ build_count = 0
    /\ compilations = <<>>
    /\ compile_calls = 0
    /\ checkpoints = EmptyUpdate
    /\ config = <<>>
    /\ outcome = <<>>
    /\ runs = <<>>

\* Not part of the specifications with a single call of retry_with_backoff.
ConcUnused ==
    /\ wrapper_calls = <<>>
    /\ frames = <<>>

\* Not part of the specifications of the retry utility and the workflow.
AuthUnused ==
    /\ responses = <<>>
    /\ tasks = <<>>

\* Not part of the specifications of the other components.
BrowserUnused ==
    /\ _playwright = <<>>
    /\ _browser = <<>>
    /\ handles = 0
    /\ browser_calls = <<>>
    /\ browser_log = <<>>
    /\ browser_events = <<>>

\* Not part of the specifications of the other components.
ApiUnused ==
    /\ projects = <<>>
    /\ api_log = <<>>
    /\ chat_messages = <<>>
    /\ llm_request = <<>>

\* Not part of the specification of retry_with_backoff.
WfUnused ==
    /\ WfIdle
    /\ initial_state = EmptyUpdate
    /\ llm_script = <<>>
    /\ browser_script = <<>>

\* Not part of the specification of the workflow (the nodes do not call
\* retry_with_backoff).
RetryUnused ==
    /\ RetryInit
    /\ max_retries = 3 /\ initial_delay = 1 /\ max_delay = 600
    /\ exponential_base = 2 /\ exceptions = {"RetryableHTTPError", "ValueError"}

\* A workflow instance, the state a caller passes to run(), and what the
\* services will answer.
WorkflowInit ==
    /\ RetryUnused
    /\ EngineUnused
    /\ ConcUnused
    /\ AuthUnused
    /\ BrowserUnused
    /\ ApiUnused
    /\ WfIdle
    /\ initial_state \in InitialStates
    /\ llm_script \in Scripts(LlmOutcomes, MaxLlmCalls)
    /\ browser_script \in Scripts(BrowserOutcomes, MaxScrapeCalls)

\* BaseWorkflow.run up to the first node: compile() builds the graph if the
\* instance has none, ainvoke starts from initial_state at START's successor.
RunStart ==
    /\ wf_pc = "idle"
    /\ graph' = "built"
    /\ state' = SchemaInput(initial_state)
    /\ wf_pc' = Edge["START"]
    /\ UNCHANGED <<initial_state, llm_script, browser_script, llm_calls,
                   scrape_calls, updates, wf_exception>>

\* Mutant: an exception that escapes a node body is swallowed by the engine.
Propagates_Never(r) == FALSE

\* An exception raised by a node body leaves `await compiled_graph.ainvoke`.
Propagates(r) == r.raised # NoException

\* The engine applies a node's result: an exception ends the run, an update is
\* merged into the state and the run follows the node's edge.
Apply(node, r, out) ==
    /\ updates' = Append(updates, [node |-> node, before |-> state,
                                   update |-> r.update, called |-> r.called,
                                   answer |-> IF r.called THEN out.kind ELSE "none",
                                   raised |-> r.raised])
    /\ IF Propagates(r)
         THEN /\ wf_pc' = "failed"
              /\ wf_exception' = r.raised
              /\ UNCHANGED state
         ELSE /\ wf_pc' = Edge[node]
              /\ state' = Merge(state, r.update)
              /\ UNCHANGED wf_exception

GenerateQuery ==
    /\ wf_pc = "generate_query"
    /\ LET out == NextOutcome(llm_script, llm_calls)
           r == generate_search_query(state, out)
       IN
         /\ Apply("generate_query", r, out)
         /\ llm_calls' = IF r.called THEN Append(llm_calls, "generate_query")
                                     ELSE llm_calls
    /\ UNCHANGED <<graph, initial_state, llm_script, browser_script, scrape_calls>>

Search ==
    /\ wf_pc = "search"
    /\ LET out == NextOutcome(browser_script, scrape_calls)
           r == search_company_info(state, out)
       IN
         /\ Apply("search", r, out)
         /\ scrape_calls' = IF r.called THEN Append(scrape_calls, r.arg)
                                        ELSE scrape_calls
    /\ UNCHANGED <<graph, initial_state, llm_script, browser_script, llm_calls>>

Extract ==
    /\ wf_pc = "extract"
    /\ LET out == NextOutcome(llm_script, llm_calls)
           r == extract_structured_data(state, out)
       IN
         /\ Apply("extract", r, out)
         /\ llm_calls' = IF r.called THEN Append(llm_calls, "extract")
                                     ELSE llm_calls
    /\ UNCHANGED <<graph, initial_state, llm_script, browser_script, scrape_calls>>

UnchangedRetry == UNCHANGED <<retry_vars, engine_vars, conc_vars, auth_vars, browser_vars, api_vars>>

WorkflowNext ==
    \/ RunStart /\ UnchangedRetry
    \/ GenerateQuery /\ UnchangedRetry
    \/ Search /\ UnchangedRetry
    \/ Extract /\ UnchangedRetry

WorkflowSpec == WorkflowInit /\ [][WorkflowNext]_vars

\* The event loop runs a started run until it ends.
WorkflowFair == WorkflowSpec /\ WF_vars(WorkflowNext)

(***************************************************************************)
(* One workflow instance (BaseWorkflow) used by two callers: r1 awaits      *)
(* run(), r2 iterates stream(). Both pass the same initial_state, each its  *)
(* own config; a node's service call answers the same in both.              *)
(***************************************************************************)
RunIds == {"r1", "r2"}

RunMode == [r1 |-> "run", r2 |-> "stream"]

ThreadIds == {"t1", "t2"}

\* config is None, or names no thread_id
NoConfig == "None"

Configs == [RunIds -> ThreadIds \cup {NoConfig}]

EngineCallerValues == [input |-> CompanyName,
                       company_name |-> CompanyName,
                       error |-> <<"Previous error">>,
                       structured_info |-> <<"name", ":", "Old">>]

EngineInitialStates ==
    { [k \in D |-> EngineCallerValues[k]] : D \in SUBSET (DOMAIN EngineCallerValues) }

\* What the service called by each node answers.
NodeOutcomes ==
    { [generate_query |-> g, search |-> b, extract |-> x] :
        g \in {o \in LlmOutcomes : o.kind = "exc" \/ o.val = <<"Acme", " ", "revenue">>},
        b \in {o \in BrowserOutcomes : o.kind # "cancel"},
        x \in {o \in LlmOutcomes : o.kind # "cancel" /\ Len(o.val) # 5} }

ValueError == [type |-> "ValueError", id |-> 0]

NewRun == [pc |-> "idle", state |-> EmptyUpdate, updates |-> <<>>,
           emitted |-> <<>>, exc |-> NoException, result |-> EmptyUpdate]

\* Mutant: build() is called by every compile().
NeedsBuild_Always(g) == TRUE

\* `if not self.graph:`
NeedsBuild(g) == g = "None"

\* Mutant: the saver keeps one slot for all threads.
CheckpointKey_Shared(thread) == "t1"

\* The MemorySaver files a checkpoint under the thread_id of the config.
CheckpointKey(thread) == thread

Saved(cp, thread, st) ==
    [t \in (DOMAIN cp) \cup {CheckpointKey(thread)} |->
        IF t = CheckpointKey(thread) THEN st ELSE cp[t]]

HasCheckpoint(cp, thread) == CheckpointKey(thread) \in DOMAIN cp

Latest(cp, thread) == cp[CheckpointKey(thread)]

\* The graph is compiled with checkpointer=self.checkpointer, and a compiled
\* graph that has a checkpointer refuses a config without a thread_id.
MissingThread(cfg) == cfg = NoConfig

\* The state a run starts from: the caller's input, written over the values
\* saved for the thread if there are any.
StartState(cp, thread, input) ==
    IF HasCheckpoint(cp, thread)
      THEN Merge(Latest(cp, thread), SchemaInput(input))
      ELSE SchemaInput(input)

\* Mutant: the stream names the node that ran but not what it returned.
StreamElement_NameOnly(n, res) == [node |-> n, update |-> EmptyUpdate]

\* `async for event in compiled_graph.astream(...)`: yield event`: one event
\* per executed node, the node's name with the update it returned.
StreamElement(n, res) == [node |-> n, update |-> res.update]

\* BaseWorkflow.compile
DoCompile ==
    /\ graph' = "built"
    /\ build_count' = IF NeedsBuild(graph) THEN build_count + 1 ELSE build_count
    /\ compilations' = Append(compilations,
                              [edges |-> Edge, build |-> build_count',
                               checkpointer |-> "MemorySaver"])

\* A caller calls compile() itself.
CompileCall ==
    /\ compile_calls < MaxCompileCalls
    /\ compile_calls' = compile_calls + 1
    /\ DoCompile
    /\ UNCHANGED <<checkpoints, config, outcome, runs>>

\* run() / the first pull on stream(): compile(), then ainvoke / astream up
\* to the first node.
Begin(r) ==
    /\ runs[r].pc = "idle"
    /\ DoCompile
    /\ IF MissingThread(config[r])
         THEN /\ runs' = [runs EXCEPT ![r].pc = "failed", ![r].exc = ValueError]
              /\ UNCHANGED checkpoints
         ELSE LET start == StartState(checkpoints, config[r], initial_state) IN
              /\ runs' = [runs EXCEPT ![r].pc = Edge["START"], ![r].state = start]
              /\ checkpoints' = Saved(checkpoints, config[r], start)
    /\ UNCHANGED <<compile_calls, config, outcome>>

\* The engine executes node n of run r: res is what the node body did.
Step(r, n, res) ==
    LET run == runs[r]
        after == IF Propagates(res) THEN run.state ELSE Merge(run.state, res.update)
        entry == [node |-> n, before |-> run.state, update |-> res.update,
                  after |-> after, called |-> res.called, raised |-> res.raised]
    IN
    /\ run.pc = n
    /\ IF Propagates(res)
         THEN /\ runs' = [runs EXCEPT ![r].pc = "failed",
                                      ![r].exc = res.raised,
                                      ![r].updates = Append(run.updates, entry)]
              /\ UNCHANGED checkpoints
         ELSE /\ runs' = [runs EXCEPT
                    ![r].pc = Edge[n],
                    ![r].state = after,
                    ![r].updates = Append(run.updates, entry),
                    ![r].emitted = IF RunMode[r] = "stream"
                                     THEN Append(run.emitted, StreamElement(n, res))
                                     ELSE run.emitted,
                    ![r].result = IF RunMode[r] = "run" /\ Edge[n] = "END"
                                    THEN after ELSE run.result]
              /\ checkpoints' = Saved(checkpoints, config[r], after)
    /\ UNCHANGED <<graph, build_count, compilations, compile_calls, config, outcome>>

EngineGenerateQuery(r) ==
    Step(r, "generate_query",
         generate_search_query(runs[r].state, outcome["generate_query"]))

EngineSearch(r) ==
    Step(r, "search", search_company_info(runs[r].state, outcome["search"]))

EngineExtract(r) ==
    Step(r, "extract", extract_structured_data(runs[r].state, outcome["extract"]))

EngineInit ==
    /\ RetryUnused
    /\ ConcUnused
    /\ AuthUnused
    /\ BrowserUnused
    /\ ApiUnused
    /\ WfIdle
    /\ llm_script = <<>>
    /\ browser_script = <<>>
    /\ initial_state \in EngineInitialStates
    /\ build_count = 0
    /\ compilations = <<>>
    /\ compile_calls = 0
    /\ checkpoints = EmptyUpdate
    /\ config \in Configs
    /\ outcome \in NodeOutcomes
    /\ runs = [r \in RunIds |-> NewRun]

EngineFrame ==
    UNCHANGED <<retry_vars, conc_vars, auth_vars, browser_vars, api_vars, wf_pc, initial_state, state, llm_script, browser_script,
                llm_calls, scrape_calls, updates, wf_exception>>

EngineNext ==
    \/ CompileCall /\ EngineFrame
    \/ \E r \in RunIds : Begin(r) /\ EngineFrame
    \/ \E r \in RunIds : EngineGenerateQuery(r) /\ EngineFrame
    \/ \E r \in RunIds : EngineSearch(r) /\ EngineFrame
    \/ \E r \in RunIds : EngineExtract(r) /\ EngineFrame

EngineSpec == EngineInit /\ [][EngineNext]_vars

(***************************************************************************)
(* with_retry: several calls of the decorated function                     *)
(***************************************************************************)
CallIds == {"c1", "c2"}

NewCall == [pc |-> "idle", call_count |-> 0, sleeps |-> <<>>, exit_via |-> "none",
            result |-> None, propagated |-> NoException]

NewFrame == [attempt |-> 0, last_exception |-> NoException]

\* Mutant: the loop variable and last_exception live in the decorator's
\* closure, one copy for all calls of the decorated function.
FrameOf_Closure(c) == "c1"

\* `return await retry_with_backoff(_func, ...)`: each call of wrapper makes
\* its own activation of retry_with_backoff, which holds attempt,
\* last_exception and delay as locals.
FrameOf(c) == c

\* Mutant: the backoff is a blocking sleep, which holds the event loop, so no
\* other call runs while one call is in its backoff.
Runnable_Blocking(c) == \A d \in CallIds \ {c} : wrapper_calls[d].pc # "sleeping"

\* `await asyncio.sleep(delay)` suspends only the coroutine that awaits it;
\* the event loop keeps running the other calls.
Runnable(c) == TRUE

\* wrapper up to the first iteration of the loop of its retry_with_backoff
ConcCall(c) ==
    /\ wrapper_calls[c].pc = "idle"
    /\ Runnable(c)
    /\ frames' = [frames EXCEPT ![FrameOf(c)] = NewFrame]
    /\ wrapper_calls' = [wrapper_calls EXCEPT ![c] =
                   IF InRange(0, max_retries)
                     THEN [@ EXCEPT !.pc = "attempt"]
                     ELSE [@ EXCEPT !.pc = "returned", !.exit_via = "after_loop"]]

\* one iteration of the loop body in call c
ConcAttempt(c) ==
    /\ wrapper_calls[c].pc = "attempt"
    /\ Runnable(c)
    /\ \E out \in FuncOutcomes :
         LET f == frames[FrameOf(c)]
             n == wrapper_calls[c].call_count + 1
             e == [type |-> out.type, id |-> n]
             d == BackoffDelay(initial_delay, exponential_base, f.attempt, max_delay)
         IN
         IF out.kind = "return"
           THEN /\ wrapper_calls' = [wrapper_calls EXCEPT ![c] =
                               [@ EXCEPT !.pc = "returned", !.call_count = n,
                                         !.result = ReturnedValue(out.value),
                                         !.exit_via = "return"]]
                /\ UNCHANGED frames
           ELSE IF ~Caught(e, exceptions)
           THEN /\ wrapper_calls' = [wrapper_calls EXCEPT ![c] =
                               [@ EXCEPT !.pc = "raised", !.call_count = n,
                                         !.propagated = e, !.exit_via = "uncaught"]]
                /\ UNCHANGED frames
           ELSE IF Exhausted(f.attempt, max_retries)
           THEN /\ wrapper_calls' = [wrapper_calls EXCEPT ![c] =
                               [@ EXCEPT !.pc = "raised", !.call_count = n,
                                         !.propagated = Reraised(e, f.last_exception),
                                         !.exit_via = "reraise"]]
                /\ frames' = [frames EXCEPT ![FrameOf(c)].last_exception = e]
           ELSE /\ wrapper_calls' = [wrapper_calls EXCEPT ![c] =
                               [@ EXCEPT !.pc = "sleeping", !.call_count = n,
                                         !.sleeps = Append(@, d)]]
                /\ frames' = [frames EXCEPT ![FrameOf(c)].last_exception = e]

\* asyncio.sleep(delay) of call c completes; the loop takes its next element
ConcWake(c) ==
    /\ wrapper_calls[c].pc = "sleeping"
    /\ LET f == frames[FrameOf(c)] IN
       IF InRange(f.attempt + 1, max_retries)
         THEN /\ frames' = [frames EXCEPT ![FrameOf(c)].attempt = f.attempt + 1]
              /\ wrapper_calls' = [wrapper_calls EXCEPT ![c].pc = "attempt"]
         ELSE /\ wrapper_calls' = [wrapper_calls EXCEPT ![c] =
                             [@ EXCEPT !.pc = "raised", !.exit_via = "after_loop",
                                       !.propagated = f.last_exception]]
              /\ UNCHANGED frames

\* The decorator's parameters, shared by the calls; no call made yet.
ConcInit ==
    /\ RetryInit
    /\ WfUnused
    /\ EngineUnused
    /\ AuthUnused
    /\ BrowserUnused
    /\ ApiUnused
    /\ wrapper_calls = [c \in CallIds |-> NewCall]
    /\ frames = [c \in CallIds |-> NewFrame]

ConcFrame == UNCHANGED <<retry_vars, wf_vars, engine_vars, auth_vars, browser_vars, api_vars>>

ConcNext ==
    \/ \E c \in CallIds : ConcCall(c) /\ ConcFrame
    \/ \E c \in CallIds : ConcAttempt(c) /\ ConcFrame
    \/ \E c \in CallIds : ConcWake(c) /\ ConcFrame

ConcurrentSpec == ConcInit /\ [][ConcNext]_vars

\* the steps of call c
ConcStep(c) == (ConcCall(c) \/ ConcAttempt(c) \/ ConcWake(c)) /\ ConcFrame

\* The event loop runs every task that is ready, and the timer of every
\* asyncio.sleep fires: no call that can take a step waits for ever.
ConcurrentFair == ConcurrentSpec /\ \A c \in CallIds : WF_vars(ConcStep(c))

(***************************************************************************)
(* get_current_user                                                        *)
(***************************************************************************)
\* A header value is a sequence of words and single spaces.
Schemes == {"Bearer", "bearer", "BEARER", "Basic"}
Tokens == {"tok_a", "tok_b"}

HeaderTexts ==
    {<<>>}
    \cup { <<s>> : s \in Schemes }
    \cup { <<s, " ">> : s \in Schemes }
    \cup { <<s, " ", t>> : s \in Schemes, t \in Tokens }
    \cup { <<" ", "Bearer", " ", "tok_a">>, <<"Bearer", " ", " ", "tok_a">> }

\* authorization: str | None
Headers ==
    {[present |-> FALSE, text |-> <<>>]}
    \cup { [present |-> TRUE, text |-> t] : t \in HeaderTexts }

\* `not authorization`: None or the empty string
Missing(h) == ~h.present \/ h.text = <<>>

\* position of the first space of a text, 0 when it has none
RECURSIVE FirstSpace(_, _)
FirstSpace(t, i) ==
    IF i > Len(t) THEN 0
    ELSE IF t[i] = " " THEN i
    ELSE FirstSpace(t, i + 1)

\* `scheme, _, token = authorization.partition(" ")`
Partition(t) ==
    LET i == FirstSpace(t, 1) IN
    IF i = 0
      THEN [scheme |-> t, token |-> <<>>]
      ELSE [scheme |-> SubSeq(t, 1, i - 1), token |-> SubSeq(t, i + 1, Len(t))]

LowerWord(w) ==
    CASE w = "Bearer" -> "bearer"
      [] w = "BEARER" -> "bearer"
      [] w = "Basic" -> "basic"
      [] OTHER -> w

\* str.lower()
Lower(t) == [i \in 1..Len(t) |-> LowerWord(t[i])]

\* Mutant: any scheme is accepted.
SchemeAccepted_Any(scheme) == TRUE

\* the negation of `scheme.lower() != "bearer"`
SchemeAccepted(scheme) == Lower(scheme) = <<"bearer">>

\* What verify_token does with a token: it returns the decoded payload, or
\* jwt.decode / the JWKS client raises and the except clauses of
\* verify_token turn that into an HTTPException.
Payloads ==
    { [sub |-> "user_a", sid |-> "sess_1", email |-> "a@example.com",
       org_id |-> "org_1", org_role |-> "admin"],
      [sub |-> "user_b"] }

VerifyOutcomes ==
    { [raised |-> "None", payload |-> p] : p \in Payloads }
    \cup { [raised |-> x, payload |-> <<>>] :
             x \in {"ExpiredSignatureError", "InvalidTokenError", "Exception"} }

\* the detail of the HTTPException of verify_token
VerifyDetail(x) ==
    CASE x = "ExpiredSignatureError" -> "Token has expired"
      [] x = "InvalidTokenError" -> "Invalid authentication token"
      [] OTHER -> "Authentication failed"

\* dict.get
Get(d, k) == IF k \in DOMAIN d THEN d[k] ELSE None

UserData(payload) ==
    [user_id |-> Get(payload, "sub"), session_id |-> Get(payload, "sid"),
     email |-> Get(payload, "email"), org_id |-> Get(payload, "org_id"),
     org_role |-> Get(payload, "org_role")]

NoToken == <<"-">>

Unauthorized(h, detail, arg) ==
    [authorization |-> h, verify_arg |-> arg, status |-> "HTTP_401_UNAUTHORIZED",
     detail |-> detail, user_data |-> <<>>, task_created |-> FALSE]

\* One call of get_current_user; it has no await, so it runs in one step.
GetCurrentUser(h, v) ==
    LET parts == Partition(h.text) IN
    /\ Len(responses) < MaxRequests
    /\ IF Missing(h)
         THEN /\ responses' = Append(responses,
                     Unauthorized(h, "Missing authorization header", NoToken))
              /\ UNCHANGED tasks
         ELSE IF ~SchemeAccepted(parts.scheme)
         THEN /\ responses' = Append(responses,
                     Unauthorized(h, "Invalid authentication scheme", NoToken))
              /\ UNCHANGED tasks
         ELSE IF parts.token = <<>>
         THEN /\ responses' = Append(responses,
                     Unauthorized(h, "Missing authentication token", NoToken))
              /\ UNCHANGED tasks
         ELSE IF v.raised # "None"
         THEN /\ responses' = Append(responses,
                     Unauthorized(h, VerifyDetail(v.raised), parts.token))
              /\ UNCHANGED tasks
         ELSE /\ responses' = Append(responses,
                     [authorization |-> h, verify_arg |-> parts.token,
                      status |-> "returned", detail |-> "",
                      user_data |-> UserData(v.payload), task_created |-> TRUE])
              /\ tasks' = Append(tasks, [user_data |-> UserData(v.payload),
                                         request |-> Len(responses) + 1,
                                         done |-> FALSE])

\* The event loop runs a pending _ensure_user_exists task to its end (it
\* catches every exception of its body).
EnsureUserExists(i) ==
    /\ ~tasks[i].done
    /\ tasks' = [tasks EXCEPT ![i].done = TRUE]
    /\ UNCHANGED responses

AuthInit ==
    /\ RetryUnused
    /\ WfUnused
    /\ EngineUnused
    /\ ConcUnused
    /\ BrowserUnused
    /\ ApiUnused
    /\ responses = <<>>
    /\ tasks = <<>>

AuthFrame == UNCHANGED <<retry_vars, wf_vars, engine_vars, conc_vars, browser_vars, api_vars>>

AuthNext ==
    \/ \E h \in Headers, v \in VerifyOutcomes : GetCurrentUser(h, v) /\ AuthFrame
    \/ \E i \in 1..Len(tasks) : EnsureUserExists(i) /\ AuthFrame

AuthSpec == AuthInit /\ [][AuthNext]_vars

(***************************************************************************)
(* BrowserManager                                                          *)
(***************************************************************************)
Callers == {"p1", "p2"}

\* start() and stop(); new_context() and new_page() used as `async with`
BrowserOps == {"start", "stop", "new_context", "new_page"}

\* the value None of _playwright and _browser
NoHandle == [kind |-> "None", id |-> 0]

\* A caller's call: where it is, its entry of the log, the objects its
\* locals hold (context, page; the object an awaited close() or stop() was
\* called on), and whether an exception is on its way out of the body.
IdleCall == [pc |-> "idle", entry |-> 0, op |-> "none", target |-> NoHandle,
             context |-> NoHandle, page |-> NoHandle, exc |-> FALSE]

\* Mutant: start() launches whether or not a browser is set.
BrowserIsNone_Always(b) == TRUE

\* `if self._browser is None:`
BrowserIsNone(b) == b = NoHandle

\* `if self._browser:` / `if self._playwright:`
IsSet(h) == h # NoHandle

\* parent: for a page, the context it was created in
Event(p, what, h) == [caller |-> p, what |-> what, id |-> h.id, parent |-> 0]

PageEvent(p, what, h, c) == [caller |-> p, what |-> what, id |-> h.id, parent |-> c.id]

\* The call of caller p ends, by returning or by raising.
EndCall(p, how) ==
    /\ browser_calls' = [browser_calls EXCEPT ![p] = IdleCall]
    /\ browser_log' = [browser_log EXCEPT ![browser_calls[p].entry] =
                          [@ EXCEPT !.outcome = how,
                                    !.playwright_after = _playwright',
                                    !.browser_after = _browser']]

\* A call goes on to its next await.
Goto(p, pc) ==
    /\ browser_calls' = [browser_calls EXCEPT ![p].pc = pc]
    /\ UNCHANGED browser_log

\* One call at a time: a call is made when the previous one has ended.
NoCallInProgress == \A q \in Callers : browser_calls[q].pc = "idle"

NewEntry(op) ==
    [op |-> op, outcome |-> "pending", launched |-> 0, body |-> "none",
     playwright_before |-> _playwright, browser_before |-> _browser,
     playwright_after |-> NoHandle, browser_after |-> NoHandle]

\* start() returns: the call ends if it was a call of start(), and goes on
\* to `self._browser.new_context(**settings)` inside new_context().
StartReturns(p, op, entry, launched) ==
    IF op = "start"
      THEN /\ browser_calls' = [browser_calls EXCEPT ![p] = IdleCall]
           /\ browser_log' = [browser_log EXCEPT ![entry] =
                                 [@ EXCEPT !.outcome = "returned",
                                           !.launched = @ + launched,
                                           !.playwright_after = _playwright',
                                           !.browser_after = _browser']]
      ELSE /\ browser_calls' = [browser_calls EXCEPT ![p] =
                                  [IdleCall EXCEPT !.pc = "create_context",
                                                   !.entry = entry, !.op = op]]
           /\ browser_log' = [browser_log EXCEPT ![entry].launched = @ + launched]

\* start() up to its first await; start() is called directly, or as the
\* first statement of new_context() (which new_page() enters first).
StartBegin(p, op, bound) ==
    /\ op \in BrowserOps \ {"stop"}
    /\ browser_calls[p].pc = "idle"
    /\ Len(browser_log) < bound
    /\ UNCHANGED <<_playwright, _browser, handles, browser_events>>
    /\ LET n == Len(browser_log) + 1
           logged == Append(browser_log, NewEntry(op))
       IN
       IF BrowserIsNone(_browser)
         THEN /\ browser_log' = logged
              /\ browser_calls' = [browser_calls EXCEPT ![p] =
                                     [IdleCall EXCEPT !.pc = "playwright_start",
                                                      !.entry = n, !.op = op]]
         ELSE IF op = "start"
         THEN /\ browser_log' = [logged EXCEPT ![n] =
                                    [@ EXCEPT !.outcome = "returned",
                                              !.playwright_after = _playwright,
                                              !.browser_after = _browser]]
              /\ UNCHANGED browser_calls
         ELSE /\ browser_log' = logged
              /\ browser_calls' = [browser_calls EXCEPT ![p] =
                                     [IdleCall EXCEPT !.pc = "create_context",
                                                      !.entry = n, !.op = op]]

\* `self._playwright = await async_playwright().start()`
PlaywrightStart(p, ok) ==
    /\ browser_calls[p].pc = "playwright_start"
    /\ UNCHANGED _browser
    /\ IF ok
         THEN /\ handles' = handles + 1
              /\ _playwright' = [kind |-> "Playwright", id |-> handles']
              /\ browser_events' = Append(browser_events,
                                          Event(p, "playwright_started", _playwright'))
              /\ Goto(p, "launch")
         ELSE /\ UNCHANGED <<_playwright, handles, browser_events>>
              /\ EndCall(p, "raised")

\* `self._browser = await self._playwright.chromium.launch(...)`
Launch(p, ok) ==
    /\ browser_calls[p].pc = "launch"
    /\ UNCHANGED _playwright
    /\ IF ok
         THEN /\ handles' = handles + 1
              /\ _browser' = [kind |-> "Browser", id |-> handles']
              /\ browser_events' = Append(browser_events,
                                          Event(p, "browser_launched", _browser'))
              /\ StartReturns(p, browser_calls[p].op, browser_calls[p].entry, 1)
         ELSE /\ UNCHANGED <<_browser, handles, browser_events>>
              /\ EndCall(p, "raised")

\* stop() up to its first await
StopBegin(p, bound) ==
    /\ browser_calls[p].pc = "idle"
    /\ Len(browser_log) < bound
    /\ UNCHANGED <<_playwright, _browser, handles, browser_events>>
    /\ LET n == Len(browser_log) + 1 IN
       IF IsSet(_browser)
         THEN /\ browser_log' = Append(browser_log, NewEntry("stop"))
              /\ browser_calls' = [browser_calls EXCEPT ![p] =
                                     [IdleCall EXCEPT !.pc = "close", !.entry = n,
                                                      !.op = "stop",
                                                      !.target = _browser]]
         ELSE IF IsSet(_playwright)
         THEN /\ browser_log' = Append(browser_log, NewEntry("stop"))
              /\ browser_calls' = [browser_calls EXCEPT ![p] =
                                     [IdleCall EXCEPT !.pc = "playwright_stop",
                                                      !.entry = n, !.op = "stop",
                                                      !.target = _playwright]]
         ELSE /\ browser_log' = Append(browser_log,
                    [NewEntry("stop") EXCEPT !.outcome = "returned"])
              /\ UNCHANGED browser_calls

\* `await self._browser.close()`, `self._browser = None`, and the test of
\* self._playwright that follows without an await
Close(p, ok) ==
    /\ browser_calls[p].pc = "close"
    /\ UNCHANGED <<_playwright, handles>>
    /\ IF ok
         THEN /\ _browser' = NoHandle
              /\ browser_events' = Append(browser_events,
                                          Event(p, "browser_closed", browser_calls[p].target))
              /\ IF IsSet(_playwright)
                   THEN /\ browser_calls' = [browser_calls EXCEPT
                                               ![p].pc = "playwright_stop",
                                               ![p].target = _playwright]
                        /\ UNCHANGED browser_log
                   ELSE EndCall(p, "returned")
         ELSE /\ UNCHANGED <<_browser, browser_events>>
              /\ EndCall(p, "raised")

\* `await self._playwright.stop()`, `self._playwright = None`
PlaywrightStop(p, ok) ==
    /\ browser_calls[p].pc = "playwright_stop"
    /\ UNCHANGED <<_browser, handles>>
    /\ IF ok
         THEN /\ _playwright' = NoHandle
              /\ browser_events' = Append(browser_events,
                                          Event(p, "playwright_stopped", browser_calls[p].target))
              /\ EndCall(p, "returned")
         ELSE /\ UNCHANGED <<_playwright, browser_events>>
              /\ EndCall(p, "raised")

\* Mutant: the close follows the yield without try/finally, so it is skipped
\* when the body raises.
ClosesOnExit_OnlyNormal(raised) == ~raised

\* `try: yield ... finally: await ....close()`, and the __aexit__ of `async
\* with`: the close runs however the body was left.
ClosesOnExit(raised) == TRUE

\* `context = await self._browser.new_context(**settings)`; with no browser
\* set the attribute access on None raises.
CreateContext(p, ok) ==
    /\ browser_calls[p].pc = "create_context"
    /\ UNCHANGED <<_playwright, _browser>>
    /\ IF ok /\ IsSet(_browser)
         THEN /\ handles' = handles + 1
              /\ LET c == [kind |-> "Context", id |-> handles'] IN
                 /\ browser_events' = Append(browser_events,
                                             Event(p, "context_created", c))
                 /\ browser_calls' = [browser_calls EXCEPT
                       ![p].context = c,
                       ![p].pc = IF browser_calls[p].op = "new_context"
                                   THEN "body" ELSE "create_page"]
              /\ UNCHANGED browser_log
         ELSE /\ UNCHANGED <<handles, browser_events>>
              /\ EndCall(p, "raised")

\* new_page: `page = await context.new_page()` inside `async with
\* self.new_context(...)`; if it raises, the exception leaves the async with.
CreatePage(p, ok) ==
    /\ browser_calls[p].pc = "create_page"
    /\ UNCHANGED <<_playwright, _browser, browser_log>>
    /\ IF ok
         THEN /\ handles' = handles + 1
              /\ LET g == [kind |-> "Page", id |-> handles'] IN
                 /\ browser_events' = Append(browser_events,
                        PageEvent(p, "page_created", g, browser_calls[p].context))
                 /\ browser_calls' = [browser_calls EXCEPT ![p].page = g,
                                                           ![p].pc = "body"]
         ELSE /\ UNCHANGED <<handles, browser_events>>
              /\ browser_calls' = [browser_calls EXCEPT ![p] =
                    IF ClosesOnExit(TRUE)
                      THEN [@ EXCEPT !.exc = TRUE, !.pc = "close_context"]
                      ELSE IdleCall]

\* `yield context` / `yield page`: the body of the caller's `async with`
\* runs and exits, normally or by an exception.
Body(p, ok) ==
    /\ browser_calls[p].pc = "body"
    /\ UNCHANGED <<_playwright, _browser, handles, browser_events>>
    /\ browser_log' = [browser_log EXCEPT ![browser_calls[p].entry].body =
                          IF ok THEN "exited" ELSE "raised"]
    /\ browser_calls' = [browser_calls EXCEPT ![p] =
          IF ClosesOnExit(~ok)
            THEN [@ EXCEPT !.exc = ~ok,
                           !.pc = IF browser_calls[p].op = "new_page"
                                    THEN "close_page" ELSE "close_context"]
            ELSE IdleCall]

\* new_page: `finally: await page.close()`
ClosePage(p, ok) ==
    /\ browser_calls[p].pc = "close_page"
    /\ UNCHANGED <<_playwright, _browser, handles, browser_log>>
    /\ browser_events' = Append(browser_events,
                                PageEvent(p, "page_closed", browser_calls[p].page,
                                          browser_calls[p].context))
    /\ browser_calls' = [browser_calls EXCEPT ![p].exc = @ \/ ~ok,
                                              ![p].pc = "close_context"]

\* new_context: `finally: await context.close()`
CloseContext(p, ok) ==
    /\ browser_calls[p].pc = "close_context"
    /\ UNCHANGED <<_playwright, _browser, handles>>
    /\ browser_events' = Append(browser_events,
                                Event(p, "context_closed", browser_calls[p].context))
    /\ EndCall(p, IF browser_calls[p].exc \/ ~ok THEN "raised" ELSE "returned")

\* One step of a call in progress.
BrowserStep(p, ok) ==
    \/ PlaywrightStart(p, ok)
    \/ Launch(p, ok)
    \/ Close(p, ok)
    \/ PlaywrightStop(p, ok)

ContextStep(p, ok) ==
    \/ CreateContext(p, ok)
    \/ CreatePage(p, ok)
    \/ Body(p, ok)
    \/ ClosePage(p, ok)
    \/ CloseContext(p, ok)

\* BrowserManager.__init__
BrowserInit ==
    /\ RetryUnused
    /\ WfUnused
    /\ EngineUnused
    /\ ConcUnused
    /\ AuthUnused
    /\ ApiUnused
    /\ _playwright = NoHandle
    /\ _browser = NoHandle
    /\ handles = 0
    /\ browser_calls = [p \in Callers |-> IdleCall]
    /\ browser_log = <<>>
    /\ browser_events = <<>>

BrowserFrame == UNCHANGED <<retry_vars, wf_vars, engine_vars, conc_vars, auth_vars, api_vars>>

\* The calls are made one after the other, by one caller; each awaited
\* operation succeeds or raises.
BrowserNext ==
    \/ \E op \in BrowserOps :
         NoCallInProgress /\ StartBegin("p1", op, MaxBrowserCalls) /\ BrowserFrame
    \/ NoCallInProgress /\ StopBegin("p1", MaxBrowserCalls) /\ BrowserFrame
    \/ \E ok \in BOOLEAN : PlaywrightStart("p1", ok) /\ BrowserFrame
    \/ \E ok \in BOOLEAN : Launch("p1", ok) /\ BrowserFrame
    \/ \E ok \in BOOLEAN : Close("p1", ok) /\ BrowserFrame
    \/ \E ok \in BOOLEAN : PlaywrightStop("p1", ok) /\ BrowserFrame
    \/ \E ok \in BOOLEAN : ContextStep("p1", ok) /\ BrowserFrame

BrowserSpec == BrowserInit /\ [][BrowserNext]_vars

\* The calls two concurrent callers make: start() itself, and scrape_page(),
\* which enters new_page(), which enters new_context(), which awaits start().
RaceOps == {"start", "new_page"}

\* The same calls made by two concurrent callers: a call may begin while
\* another is suspended at one of its awaits. The awaited operations succeed.
BrowserRaceNext ==
    \/ \E p \in Callers, op \in RaceOps :
         StartBegin(p, op, MaxRaceCalls) /\ BrowserFrame
    \/ \E p \in Callers : StopBegin(p, MaxRaceCalls) /\ BrowserFrame
    \/ \E p \in Callers : BrowserStep(p, TRUE) /\ BrowserFrame
    \/ \E p \in Callers : ContextStep(p, TRUE) /\ BrowserFrame

BrowserRaceSpec == BrowserInit /\ [][BrowserRaceNext]_vars

(***************************************************************************)
(* The project routes                                                      *)
(***************************************************************************)
MaxProjectCalls == 3

ProjectIds == {"pr1", "pr2"}

\* current_user as get_current_user returns it: a personal account has no
\* org_id.
UserNoOrg == [user_id |-> "user_1", org_id |-> None]
UserInOrg == [user_id |-> "user_2", org_id |-> "org_a"]
CurrentUsers == {UserNoOrg, UserInOrg}

\* no row with that id
NoRow == [firm_id |-> None, owner_id |-> None, name |-> None, status |-> None]

\* `current_user.get("org_id") or current_user["user_id"]`
FirmId(current_user) ==
    IF current_user.org_id # None THEN current_user.org_id ELSE current_user.user_id

\* get_project: `if project.firm_id != firm_id: raise 403`
FirmAccess(project, current_user) == project.firm_id = FirmId(current_user)

\* update_project, delete_project, list_project_deliverables:
\* `if project.firm_id != current_user.get("org_id"): raise 403`
OrgAccess(project, current_user) == project.firm_id = current_user.org_id

\* what a route answers, with the row it found
Respond(op, current_user, project_id, row, code, listed) ==
    api_log' = Append(api_log, [op |-> op, user_id |-> current_user.user_id,
                                org_id |-> current_user.org_id,
                                project_id |-> project_id, row |-> row,
                                status |-> code, listed |-> listed])

\* the status of a route that looks the project up and then checks access
StatusOf(row, allowed, success) ==
    IF row = NoRow THEN 404 ELSE IF ~allowed THEN 403 ELSE success

\* POST /projects; uuid4 gives an id no row has
create_project(current_user, project_id) ==
    /\ Len(api_log) < MaxProjectCalls
    /\ projects[project_id] = NoRow
    /\ projects' = [projects EXCEPT ![project_id] =
                      [firm_id |-> FirmId(current_user),
                       owner_id |-> current_user.user_id,
                       name |-> "name", status |-> "draft"]]
    /\ Respond("create_project", current_user, project_id, projects'[project_id],
               201, {})
    /\ UNCHANGED <<chat_messages, llm_request>>

\* GET /projects
list_projects(current_user) ==
    /\ Len(api_log) < MaxProjectCalls
    /\ Respond("list_projects", current_user, None, NoRow, 200,
               {q \in ProjectIds : projects[q].firm_id = FirmId(current_user)})
    /\ UNCHANGED <<projects, chat_messages, llm_request>>

\* GET /projects/{project_id}
get_project(current_user, project_id) ==
    /\ Len(api_log) < MaxProjectCalls
    /\ LET project == projects[project_id] IN
       Respond("get_project", current_user, project_id, project,
               StatusOf(project, FirmAccess(project, current_user), 200), {})
    /\ UNCHANGED <<projects, chat_messages, llm_request>>

\* PATCH /projects/{project_id}, with a new name
update_project(current_user, project_id) ==
    /\ Len(api_log) < MaxProjectCalls
    /\ LET project == projects[project_id]
           code == StatusOf(project, OrgAccess(project, current_user), 200)
       IN /\ Respond("update_project", current_user, project_id, project, code, {})
          /\ projects' = IF code = 200
                           THEN [projects EXCEPT ![project_id].name = "renamed"]
                           ELSE projects
    /\ UNCHANGED <<chat_messages, llm_request>>

\* DELETE /projects/{project_id}
delete_project(current_user, project_id) ==
    /\ Len(api_log) < MaxProjectCalls
    /\ LET project == projects[project_id]
           code == StatusOf(project, OrgAccess(project, current_user), 204)
       IN /\ Respond("delete_project", current_user, project_id, project, code, {})
          /\ projects' = IF code = 204
                           THEN [projects EXCEPT ![project_id] = NoRow]
                           ELSE projects
    /\ UNCHANGED <<chat_messages, llm_request>>

\* GET /projects/{project_id}/deliverables; no route creates a deliverable
list_project_deliverables(current_user, project_id) ==
    /\ Len(api_log) < MaxProjectCalls
    /\ LET project == projects[project_id] IN
       Respond("list_project_deliverables", current_user, project_id, project,
               StatusOf(project, OrgAccess(project, current_user), 200), {})
    /\ UNCHANGED <<projects, chat_messages, llm_request>>

\* An empty projects table.
ProjectInit ==
    /\ RetryUnused
    /\ WfUnused
    /\ EngineUnused
    /\ ConcUnused
    /\ AuthUnused
    /\ BrowserUnused
    /\ projects = [q \in ProjectIds |-> NoRow]
    /\ api_log = <<>>
    /\ chat_messages = <<>>
    /\ llm_request = <<>>

ApiFrame ==
    UNCHANGED <<retry_vars, wf_vars, engine_vars, conc_vars, auth_vars, browser_vars>>

ProjectNext ==
    \/ \E u \in CurrentUsers, q \in ProjectIds : create_project(u, q) /\ ApiFrame
    \/ \E u \in CurrentUsers : list_projects(u) /\ ApiFrame
    \/ \E u \in CurrentUsers, q \in ProjectIds : get_project(u, q) /\ ApiFrame
    \/ \E u \in CurrentUsers, q \in ProjectIds : update_project(u, q) /\ ApiFrame
    \/ \E u \in CurrentUsers, q \in ProjectIds : delete_project(u, q) /\ ApiFrame
    \/ \E u \in CurrentUsers, q \in ProjectIds :
         list_project_deliverables(u, q) /\ ApiFrame

ProjectSpec == ProjectInit /\ [][ProjectNext]_vars

(***************************************************************************)
(* The chat routes                                                         *)
(***************************************************************************)
MaxChatMessages == 21
MaxCreateMessages == 2

\* `.limit(20)` of the history query
HistoryLimit == 20

\* the row create_project made for a user of an organisation
OrgProject == [firm_id |-> "org_a", owner_id |-> "user_2", name |-> "name",
               status |-> "draft"]

\* ChatMessage(id=uuid4(), role=...): the rows are kept in created_at order,
\* the id is the position
NewMessage(role) == [id |-> Len(chat_messages) + 1, role |-> role]

\* `select(ChatMessage).where(...).order_by(ChatMessage.created_at.asc())
\* .limit(20)`: the first 20 rows in ascending order of created_at
Recent(rows) == SubSeq(rows, 1, Min(Len(rows), HistoryLimit))

\* the messages list built for the LLM: the system prompt, then the history
LlmMessages(history_rows) ==
    <<[id |-> 0, role |-> "system"]>> \o history_rows

\* the latest chat request, and the messages list it sent to the LLM
ChatAnswer(op, code, submitted, messages) ==
    llm_request' = [op |-> op, status |-> code, submitted |-> submitted,
                    messages |-> messages]

IsRole(role) == LET Test(m) == m.role = role IN Len(SelectSeq(chat_messages, Test))

\* the rows made by create_message: chat_completion adds a user row and an
\* assistant row together
CreatedAlone == IsRole("user") - IsRole("assistant")

\* POST /chat/messages
create_message(current_user, project_id) ==
    /\ Len(chat_messages) < MaxChatMessages
    /\ CreatedAlone < MaxCreateMessages
    /\ LET project == projects[project_id]
           code == StatusOf(project, OrgAccess(project, current_user), 201)
       IN /\ ChatAnswer("create_message", code, 0, <<>>)
          /\ chat_messages' = IF code = 201
                                THEN Append(chat_messages, NewMessage("user"))
                                ELSE chat_messages
    /\ UNCHANGED <<projects, api_log>>

\* POST /chat/completion. The user message is flushed, the history is read
\* back, and the session is committed only after the LLM answered: a request
\* that ends by an exception leaves no row.
chat_completion(current_user, project_id, stream, llm_ok) ==
    /\ Len(chat_messages) < MaxChatMessages
    /\ LET project == projects[project_id]
           code == StatusOf(project, OrgAccess(project, current_user), 200)
           user_message == NewMessage("user")
           flushed == Append(chat_messages, user_message)
           messages == LlmMessages(Recent(flushed))
           ai_message == [id |-> user_message.id + 1, role |-> "assistant"]
       IN IF code # 200
            THEN /\ ChatAnswer("chat_completion", code, 0, <<>>)
                 /\ UNCHANGED chat_messages
            ELSE IF stream
            THEN /\ ChatAnswer("chat_completion", 501, user_message.id, <<>>)
                 /\ UNCHANGED chat_messages
            ELSE IF ~llm_ok
            THEN /\ ChatAnswer("chat_completion", 500, user_message.id, messages)
                 /\ UNCHANGED chat_messages
            ELSE /\ ChatAnswer("chat_completion", 200, user_message.id, messages)
                 /\ chat_messages' = Append(flushed, ai_message)
    /\ UNCHANGED <<projects, api_log>>

\* One project, created by a user of an organisation, with no message yet.
ChatInit ==
    /\ RetryUnused
    /\ WfUnused
    /\ EngineUnused
    /\ ConcUnused
    /\ AuthUnused
    /\ BrowserUnused
    /\ projects = [q \in ProjectIds |-> IF q = "pr1" THEN OrgProject ELSE NoRow]
    /\ api_log = <<>>
    /\ chat_messages = <<>>
    /\ llm_request = [op |-> "none", status |-> 0, submitted |-> 0, messages |-> <<>>]

ChatNext ==
    \/ \E u \in CurrentUsers, q \in ProjectIds : create_message(u, q) /\ ApiFrame
    \/ \E u \in CurrentUsers, q \in ProjectIds, stream \in BOOLEAN, llm_ok \in BOOLEAN :
         chat_completion(u, q, stream, llm_ok) /\ ApiFrame

ChatSpec == ChatInit /\ [][ChatNext]_vars

Init ==
    RetryInit /\ WfUnused /\ EngineUnused /\ ConcUnused /\ AuthUnused /\ BrowserUnused
    /\ ApiUnused

Next ==
    \/ RetryCall /\ UNCHANGED <<wf_vars, engine_vars, conc_vars, auth_vars, browser_vars, api_vars>>
    \/ RetryAttempt /\ UNCHANGED <<wf_vars, engine_vars, conc_vars, auth_vars, browser_vars, api_vars>>
    \/ RetryWake /\ UNCHANGED <<wf_vars, engine_vars, conc_vars, auth_vars, browser_vars, api_vars>>

Spec == Init /\ [][Next]_vars

(***************************************************************************)
(* Properties of retry_with_backoff                                        *)
(***************************************************************************)
Finished == retry_pc \in {"returned", "raised"}

\* every invocation of func so far raised an exception of the retryable set
AllRetryable ==
    \A i \in 1..Len(history) :
        history[i].kind = "raise" /\ history[i].type \in exceptions

\* C1: with max_retries = N >= 0 and a function that raises a retryable
\* exception at every invocation, func is invoked exactly N+1 times: the call
\* is still running before the (N+1)-th invocation, never makes an (N+2)-th,
\* and ends at the (N+1)-th by raising a retryable exception to the caller.
C1_RetryBound ==
    (max_retries >= 0 /\ AllRetryable) =>
        /\ call_count <= max_retries + 1
        /\ (call_count = max_retries + 1) <=> Finished
        /\ Finished => /\ retry_pc = "raised"
                       /\ propagated.type \in exceptions
                       /\ result = None

C1_Witness ==
    /\ max_retries = 2 /\ AllRetryable
    /\ retry_pc = "raised" /\ call_count = 3

\* C2: when func raises a retryable exception at its first k invocations
\* (0 <= k <= max_retries) and returns a value at invocation k+1, the call
\* returns exactly that value, func has been invoked exactly k+1 times, and
\* exactly k suspensions (one before each retry, none after the success)
\* have been performed.
C2_SuccessAfterFailures ==
    \A n \in 1..Len(history) :
        ( /\ history[n].kind = "return"
          /\ n - 1 <= max_retries
          /\ \A i \in 1..(n - 1) :
                history[i].kind = "raise" /\ history[i].type \in exceptions )
        => /\ retry_pc = "returned"
           /\ result = history[n].value
           /\ call_count = n
           /\ Len(history) = n
           /\ Len(sleeps) = n - 1
           /\ propagated = NoException

C2_Witness ==
    /\ max_retries = 3 /\ Len(history) = 3
    /\ history[1].kind = "raise" /\ history[2].kind = "raise"
    /\ history[3].kind = "return"
    /\ retry_pc = "returned" /\ result = "success" /\ call_count = 3

\* C3: an invocation that raises an exception whose type is not in the
\* retryable set ends the call at once: that exception reaches the caller,
\* it is the last invocation of func, and no suspension follows it, however
\* many attempts remain.
C3_NonRetryablePropagates ==
    \A n \in 1..Len(history) :
        (history[n].kind = "raise" /\ history[n].type \notin exceptions)
        => /\ retry_pc = "raised"
           /\ propagated = [type |-> history[n].type, id |-> n]
           /\ call_count = n
           /\ Len(history) = n
           /\ Len(sleeps) = n - 1

C3_Witness ==
    /\ max_retries = 3 /\ Len(history) = 2
    /\ history[2].kind = "raise" /\ history[2].type \notin exceptions
    /\ retry_pc = "raised" /\ attempt < max_retries

\* C4: when the retries are exhausted, the exception that leaves the call
\* is the very exception raised by invocation max_retries+1 of func (same
\* type, same instance), not a wrapper and not an earlier attempt's.
C4_LastExceptionUnchanged ==
    (retry_pc = "raised" /\ AllRetryable /\ max_retries >= 0)
    => /\ Len(history) = max_retries + 1
       /\ propagated = [type |-> history[max_retries + 1].type,
                        id |-> max_retries + 1]
       /\ exit_via = "reraise"

C4_Witness ==
    /\ retry_pc = "raised" /\ AllRetryable /\ max_retries = 2
    /\ history[2].type # history[3].type
    /\ propagated = [type |-> history[3].type, id |-> 3]

\* C5: the suspensions of a call are, in order, min(initial_delay *
\* exponential_base^i, max_delay) for i = 0..m-1, one after each failed
\* invocation that is followed by another: none before the first invocation,
\* none after the last one, none longer than max_delay.
FollowedByAnother ==
    IF Finished /\ call_count > 0 THEN call_count - 1 ELSE call_count

C5_BackoffSequence ==
    /\ Len(sleeps) = FollowedByAnother
    /\ \A i \in 1..Len(sleeps) :
         /\ sleeps[i] = IF initial_delay * Pow(exponential_base, i - 1) < max_delay
                           THEN initial_delay * Pow(exponential_base, i - 1)
                           ELSE max_delay
         /\ sleeps[i] <= max_delay
    /\ retry_pc = "sleeping" => delay = sleeps[Len(sleeps)]

C5_Witness ==
    /\ retry_pc = "raised" /\ max_retries = 3
    /\ initial_delay = 1 /\ exponential_base = 2 /\ max_delay = 3
    /\ sleeps = <<1, 2, 3>>

(***************************************************************************)
(* Properties of the company-lookup run                                    *)
(***************************************************************************)
\* generate_query has run and its update carries the error key
GenerateQueryFailed ==
    /\ Len(updates) >= 1
    /\ updates[1].node = "generate_query"
    /\ "error" \in DOMAIN updates[1].update

\* C6: once generate_query's update has set the error key, the state's
\* error is the message generate_query wrote, up to and including the final
\* state; search and extract call neither the browser nor the LLM, return
\* empty updates, and raw_data and structured_info are never added.
C6_ErrorShortCircuits ==
    GenerateQueryFailed =>
        /\ "error" \in DOMAIN state
        /\ state["error"] = updates[1].update["error"]
        /\ scrape_calls = <<>>
        /\ llm_calls = <<"generate_query">>
        /\ "raw_data" \notin DOMAIN state
        /\ "structured_info" \notin DOMAIN state
        /\ \A i \in 2..Len(updates) :
              updates[i].update = EmptyUpdate /\ ~updates[i].called
        /\ wf_pc # "failed"

C6_Witness ==
    /\ GenerateQueryFailed
    /\ wf_pc = "END" /\ Len(updates) = 3
    /\ "error" \notin DOMAIN initial_state
    /\ state["error"] = <<"Failed to generate search query: ", "LLM error">>

\* C7: every node, generate_query included, is skipped when the state it
\* is reached with carries the error key: it calls no service and its
\* update is empty.
C7_EveryNodeSkipsOnError ==
    \A i \in 1..Len(updates) :
        "error" \in DOMAIN updates[i].before
        => /\ ~updates[i].called
           /\ updates[i].update = EmptyUpdate

\* the services raise nothing but subclasses of Exception
OnlyExceptions ==
    /\ \A i \in DOMAIN llm_script : llm_script[i].kind # "cancel"
    /\ \A i \in DOMAIN browser_script : browser_script[i].kind # "cancel"

C8_Premise == "company_name" \in DOMAIN initial_state /\ OnlyExceptions

C8_NoEscape ==
    C8_Premise =>
        /\ wf_pc # "failed"
        /\ wf_exception = NoException
        /\ \A i \in 1..Len(updates) :
              /\ updates[i].raised = NoException
              /\ updates[i].answer = "exc" => "error" \in DOMAIN updates[i].update
        /\ (wf_pc = "END" /\ \E i \in 1..Len(updates) : updates[i].answer = "exc")
             => "error" \in DOMAIN state

C9_ServiceCallsAreRetried ==
    \A i \in 1..Len(updates) :
        /\ ( /\ updates[i].node = "generate_query"
             /\ updates[i].answer = "exc"
             /\ Len(llm_script) >= 2 /\ llm_script[2].kind = "ok" )
           => /\ "error" \notin DOMAIN updates[i].update
              /\ "search_query" \in DOMAIN updates[i].update
        /\ ( /\ updates[i].node = "search"
             /\ updates[i].answer = "exc"
             /\ Len(browser_script) >= 2 /\ browser_script[2].kind = "ok" )
           => /\ "error" \notin DOMAIN updates[i].update
              /\ "raw_data" \in DOMAIN updates[i].update

\* C10: once the error key is in the state of a run it stays there in
\* every later state, the final state included: no step removes it.
C10_ErrorIsNeverRemoved ==
    [][("error" \in DOMAIN state) => ("error" \in DOMAIN state')]_vars

C10_Witness ==
    /\ wf_pc = "END"
    /\ "error" \notin DOMAIN initial_state
    /\ "error" \in DOMAIN updates[2].before
    /\ "error" \in DOMAIN updates[3].before
    /\ "error" \in DOMAIN state

(***************************************************************************)
(* Properties of a workflow instance used through run() and stream()       *)
(***************************************************************************)
\* every service call succeeds (and the extraction answer is valid JSON)
AllSucceed ==
    /\ outcome["generate_query"].kind = "ok"
    /\ outcome["search"].kind = "ok"
    /\ outcome["extract"].kind = "ok"
    /\ outcome["extract"].val = <<" ", "{", "name", "}">>

NodesRun(r) == [i \in 1..Len(runs[r].updates) |-> runs[r].updates[i].node]

NodesEmitted(r) == [i \in 1..Len(runs[r].emitted) |-> runs[r].emitted[i].node]

InOrder == <<"generate_query", "search", "extract">>

\* C11: when the three service calls succeed, a run from {input,
\* company_name} executes generate_query, search, extract once each in
\* that order; its final state has search_query, raw_data and
\* structured_info beside input and company_name with their initial
\* values; stream emits exactly three elements, in node order.
C11_EndToEnd ==
    \A r \in RunIds :
        ( /\ AllSucceed
          /\ DOMAIN initial_state = {"input", "company_name"}
          /\ runs[r].pc = "END" )
        => /\ NodesRun(r) = InOrder
           /\ {"search_query", "raw_data", "structured_info"} \subseteq DOMAIN runs[r].state
           /\ \A k \in {"input", "company_name"} :
                k \in DOMAIN runs[r].state /\ runs[r].state[k] = initial_state[k]
           /\ RunMode[r] = "stream" => NodesEmitted(r) = InOrder

\* the elements of a stream merged, in emission order, into a state
RECURSIVE MergedElements(_, _)
MergedElements(s, es) ==
    IF es = <<>> THEN s
    ELSE LET u == Head(es).update IN
         MergedElements([k \in (DOMAIN s) \cup (DOMAIN u) |->
                            IF k \in DOMAIN u THEN u[k] ELSE s[k]],
                        Tail(es))

\* the two callers use different threads of the checkpointer
SeparateThreads ==
    /\ config["r1"] # NoConfig /\ config["r2"] # NoConfig
    /\ config["r1"] # config["r2"]

C13_MergeFrame ==
    \A r \in RunIds : \A i \in 1..Len(runs[r].updates) :
        LET e == runs[r].updates[i] IN
        e.raised = NoException =>
            /\ DOMAIN e.after = (DOMAIN e.before) \cup (DOMAIN e.update)
            /\ \A k \in DOMAIN e.update : e.after[k] = e.update[k]
            /\ \A k \in (DOMAIN e.before) \ (DOMAIN e.update) : e.after[k] = e.before[k]
            /\ e.update = EmptyUpdate => e.after = e.before
            /\ i = Len(runs[r].updates) => runs[r].state = e.after

C13_Witness ==
    \E r \in RunIds :
        /\ Len(runs[r].updates) = 3
        /\ runs[r].updates[1].update # EmptyUpdate
        /\ runs[r].updates[2].update # EmptyUpdate
        /\ runs[r].updates[3].update = EmptyUpdate
        /\ runs[r].updates[2].after["company_name"] = initial_state["company_name"]
        /\ runs[r].updates[2].after["search_query"] = <<"Acme", " ", "revenue">>

\* C15: an exception that escapes a node body ends the run: it leaves
\* run/stream, no later node is executed, nothing is returned, and the
\* state gets no error key for it.
C15_EscapingExceptionFailsRun ==
    \A r \in RunIds : \A i \in 1..Len(runs[r].updates) :
        LET e == runs[r].updates[i] IN
        e.raised # NoException =>
            /\ i = Len(runs[r].updates)
            /\ runs[r].pc = "failed"
            /\ runs[r].exc = e.raised
            /\ runs[r].state = e.before
            /\ runs[r].result = EmptyUpdate
            /\ Len(runs[r].emitted) = i - 1

C15_Witness ==
    /\ "company_name" \notin DOMAIN initial_state
    /\ \A r \in RunIds :
         /\ runs[r].pc = "failed"
         /\ runs[r].exc = KeyError
         /\ NodesRun(r) = <<"generate_query">>
         /\ "error" \notin DOMAIN runs[r].state

\* C16: a run or stream whose config is absent or names no thread id is a
\* stateless run: it executes like a run with an id (it reaches END unless a
\* node body raises) and writes nothing to the checkpointer.
C16_NoIdIsStateless ==
    \A r \in RunIds :
        (config[r] = NoConfig /\ runs[r].pc # "idle")
        => /\ runs[r].exc \in {NoException, KeyError}
           /\ runs[r].pc = "failed" => runs[r].updates # <<>>

\* C17: whatever the sequence of compile, run and stream calls on the
\* instance, build() is called at most once, the instance's graph does not
\* change once built, and all compiled graphs have the same topology and
\* the same checkpointer.
C17_CompileIdempotent ==
    /\ build_count <= 1
    /\ (build_count = 0) <=> (graph = "None")
    /\ (build_count = 0) <=> (compilations = <<>>)
    /\ \A i \in 1..Len(compilations) :
         /\ compilations[i] = compilations[1]
         /\ compilations[i].edges = Edge
         /\ compilations[i].build = 1

C17_Witness ==
    /\ Len(compilations) = 3
    /\ compile_calls = 1
    /\ runs["r1"].pc = "END" /\ runs["r2"].pc = "END"
    /\ build_count = 1

\* the state after r's most recently completed node (the state the run
\* started from if none has completed)
AfterLastNode(r) ==
    IF runs[r].updates = <<>>
      THEN runs[r].state
      ELSE runs[r].updates[Len(runs[r].updates)].after

\* C18: under any interleaving of runs that use distinct thread ids of the
\* one checkpointer, the latest checkpoint of a run's thread is the state
\* after that run's most recently completed node, never a state written by
\* the other run, and there is none before the run has written.
C18_CheckpointsDoNotCross ==
    \A r \in RunIds :
        ( /\ config[r] # NoConfig
          /\ \A q \in RunIds \ {r} : config[q] # config[r] )
        => IF runs[r].pc = "idle"
             THEN config[r] \notin DOMAIN checkpoints
             ELSE /\ config[r] \in DOMAIN checkpoints
                  /\ checkpoints[config[r]] = AfterLastNode(r)
                  /\ checkpoints[config[r]] = runs[r].state

C18_Witness ==
    /\ config["r1"] = "t1" /\ config["r2"] = "t2"
    /\ runs["r1"].pc = "extract" /\ runs["r2"].pc = "search"
    /\ checkpoints["t1"] # checkpoints["t2"]
    /\ checkpoints["t1"] = runs["r1"].state
    /\ checkpoints["t2"] = runs["r2"].state

(***************************************************************************)
(* Properties of concurrent calls of a decorated function                  *)
(***************************************************************************)
\* C14: the attempt counter is local to a call. Every call of the decorated
\* function, made after or interleaved with other calls with the same
\* parameters, counts its own invocations only: it is at its (k+1)-th
\* attempt after exactly k failures of its own, it gives up by re-raising
\* only at its own invocation max_retries+1, and its delays are
\* min(initial_delay * base^i, max_delay) for i = 0, 1, ... from its own
\* first failure.
C14_AttemptsAreLocal ==
    \A c \in CallIds :
        LET k == wrapper_calls[c] IN
        /\ max_retries >= 0 => k.call_count <= max_retries + 1
        /\ k.pc = "attempt" => Len(k.sleeps) = k.call_count
        /\ k.pc = "sleeping" => Len(k.sleeps) = k.call_count /\ k.call_count <= max_retries
        /\ k.exit_via = "reraise" =>
              /\ k.call_count = max_retries + 1
              /\ Len(k.sleeps) = max_retries
              /\ k.propagated.id = k.call_count
        /\ k.exit_via \in {"return", "uncaught"} => Len(k.sleeps) = k.call_count - 1
        /\ \A i \in 1..Len(k.sleeps) :
              k.sleeps[i] = Min(initial_delay * Pow(exponential_base, i - 1), max_delay)

C14_Witness ==
    /\ max_retries = 2 /\ initial_delay = 1 /\ exponential_base = 2 /\ max_delay = 600
    /\ wrapper_calls["c1"].exit_via = "reraise" /\ wrapper_calls["c1"].call_count = 3
    /\ wrapper_calls["c1"].sleeps = <<1, 2>>
    /\ wrapper_calls["c2"].pc = "sleeping" /\ wrapper_calls["c2"].call_count = 2
    /\ wrapper_calls["c2"].sleeps = <<1, 2>>

(***************************************************************************)
(* Properties of get_current_user                                          *)
(***************************************************************************)
BearerSpellings == {"Bearer", "bearer", "BEARER"}

\* the header is a bearer scheme, one space, and a non-empty rest
WellFormed(h) ==
    /\ h.present
    /\ Len(h.text) >= 3
    /\ h.text[1] \in BearerSpellings
    /\ h.text[2] = " "

\* C19: get_current_user returns user data only when the header was
\* "<bearer in any case> <token>" and verify_token succeeded on exactly that
\* token; when the header is missing, the scheme is not bearer, the token is
\* empty or verification fails, the answer is 401 and no provisioning task
\* is created. One task exists per returned user, for that user.
C19_OnlyVerifiedUsers ==
    /\ \A i \in 1..Len(responses) :
         LET q == responses[i] IN
         /\ q.status = "returned" =>
              /\ WellFormed(q.authorization)
              /\ q.verify_arg = SubSeq(q.authorization.text, 3, Len(q.authorization.text))
              /\ q.task_created
              /\ q.user_data.user_id \in {"user_a", "user_b"}
         /\ ~WellFormed(q.authorization) =>
              /\ q.status = "HTTP_401_UNAUTHORIZED"
              /\ q.verify_arg = NoToken
         /\ q.status # "returned" =>
              /\ q.status = "HTTP_401_UNAUTHORIZED"
              /\ ~q.task_created
              /\ \A j \in 1..Len(tasks) : tasks[j].request # i
    /\ Len(tasks) = Cardinality({i \in 1..Len(responses) : responses[i].status = "returned"})
    /\ \A j \in 1..Len(tasks) :
         /\ tasks[j].request \in 1..Len(responses)
         /\ responses[tasks[j].request].status = "returned"
         /\ responses[tasks[j].request].user_data = tasks[j].user_data

C19_Witness ==
    /\ Len(responses) = 2
    /\ responses[1].authorization.text = <<"Basic", " ", "tok_a">>
    /\ responses[1].status = "HTTP_401_UNAUTHORIZED"
    /\ responses[2].authorization.text = <<"bearer", " ", "tok_b">>
    /\ responses[2].status = "returned"
    /\ Len(tasks) = 1 /\ tasks[1].done

(***************************************************************************)
(* Properties of the browser manager                                       *)
(***************************************************************************)
\* the first n calls have all ended by returning
AllReturned(n) == \A i \in 1..n : browser_log[i].outcome = "returned"

\* C20: in a sequence of start() and stop() calls that each return
\* normally, after every call _browser is set exactly when _playwright is:
\* both are set after a start(), both are None after a stop(), and a
\* start() made while the browser is set launches nothing and leaves both
\* fields as they were.
C20_BrowserIffPlaywright ==
    /\ \A n \in 1..Len(browser_log) :
         LET c == browser_log[n] IN
         AllReturned(n) =>
            /\ (c.browser_after # NoHandle) <=> (c.playwright_after # NoHandle)
            /\ c.op = "start" =>
                 /\ c.browser_after.kind = "Browser"
                 /\ c.playwright_after.kind = "Playwright"
            /\ c.op = "stop" =>
                 /\ c.browser_after = NoHandle
                 /\ c.playwright_after = NoHandle
            /\ (c.op = "start" /\ c.browser_before # NoHandle) =>
                 /\ c.launched = 0
                 /\ c.browser_after = c.browser_before
                 /\ c.playwright_after = c.playwright_before
            /\ (c.op = "start" /\ c.browser_before = NoHandle) => c.launched = 1
    /\ (AllReturned(Len(browser_log)) /\ browser_log # <<>>) =>
         /\ _browser = browser_log[Len(browser_log)].browser_after
         /\ _playwright = browser_log[Len(browser_log)].playwright_after

C20_Witness ==
    /\ Len(browser_log) = 3
    /\ AllReturned(3)
    /\ browser_log[1].op = "start" /\ browser_log[2].op = "start"
    /\ browser_log[3].op = "stop"
    /\ browser_log[1].launched = 1
    /\ browser_log[2].launched = 0
    /\ browser_log[2].browser_after.kind = "Browser"
    /\ browser_log[2].playwright_after.kind = "Playwright"
    /\ _browser = NoHandle /\ _playwright = NoHandle

(***************************************************************************)
(* Further properties of retry_with_backoff and of the company-lookup run  *)
(***************************************************************************)
\* C25: whatever max_retries is (zero and negative values included), a
\* finished call of retry_with_backoff left the loop by `return` or by a
\* raise inside it: the statements after the loop are not reached, and a
\* call that returned invoked func and returns what its last invocation
\* returned.
C25_LoopIsTheOnlyExit ==
    Finished =>
        /\ exit_via # "after_loop"
        /\ retry_pc = "returned" =>
             /\ call_count >= 1
             /\ history[call_count].kind = "return"
             /\ result = history[call_count].value

\* the nodes executed so far by the run, in order
Executed == [i \in 1..Len(updates) |-> updates[i].node]

\* no node has been executed twice, and they were executed in graph order
NoNodeTwice ==
    /\ Len(updates) <= 3
    /\ \A i \in 1..Len(updates) : Executed[i] = InOrder[i]

StartedFrom(r) == runs[r].updates[1].before

\* the three steps of the run succeed: both LLM calls and the scrape
\* return, and the extraction answer parses
AllStepsSucceed ==
    /\ outcome["generate_query"].kind = "ok"
    /\ outcome["search"].kind = "ok"
    /\ outcome["extract"].kind = "ok"
    /\ outcome["extract"].val[2] = "{"

\* the message written by the first step that fails
FirstFailure ==
    IF outcome["generate_query"].kind = "exc"
      THEN <<"Failed to generate search query: ">> \o outcome["generate_query"].val
    ELSE IF outcome["search"].kind = "exc"
      THEN <<"Failed to search for company info: ">> \o outcome["search"].val
    ELSE IF outcome["extract"].kind = "exc"
      THEN <<"Failed to extract structured data: ">> \o outcome["extract"].val
    ELSE <<"Failed to extract structured data: ", "Expecting value">>

ExactlyOneOfErrorAndInfo(r) ==
    /\ ("error" \in DOMAIN runs[r].state) # ("structured_info" \in DOMAIN runs[r].state)
    /\ ("structured_info" \in DOMAIN runs[r].state) <=> AllStepsSucceed
    /\ ("error" \in DOMAIN runs[r].state) <=> ~AllStepsSucceed
    /\ ~AllStepsSucceed => runs[r].state["error"] = FirstFailure

\* C26 as stated: a run that starts from a state with company_name and
\* without error ends with exactly one of error and structured_info:
\* structured_info exactly when the three steps succeeded, error exactly
\* when one failed, with the message of the first that failed.
C26_ErrorXorStructuredInfo ==
    \A r \in RunIds :
        ( /\ runs[r].pc = "END"
          /\ "company_name" \in DOMAIN StartedFrom(r)
          /\ "error" \notin DOMAIN StartedFrom(r) )
        => ExactlyOneOfErrorAndInfo(r)

\* C26, amended: the same for a run that starts from a state with
\* company_name and with neither error nor structured_info.
C26_ErrorXorStructuredInfoFromFresh ==
    \A r \in RunIds :
        ( /\ runs[r].pc = "END"
          /\ "company_name" \in DOMAIN StartedFrom(r)
          /\ "error" \notin DOMAIN StartedFrom(r)
          /\ "structured_info" \notin DOMAIN StartedFrom(r) )
        => ExactlyOneOfErrorAndInfo(r)

C26_Witness ==
    /\ runs["r1"].pc = "END"
    /\ DOMAIN StartedFrom("r1") = {"company_name"}
    /\ outcome["generate_query"].kind = "ok"
    /\ outcome["search"].kind = "ok"
    /\ outcome["extract"].val = <<"Acme", " ", "revenue">>
    /\ runs["r1"].state["error"] =
         <<"Failed to extract structured data: ", "Expecting value">>
    /\ DOMAIN runs["r1"].state = {"company_name", "search_query", "raw_data", "error"}

\* C27: in any sequence of runs on one workflow instance, runs that reuse a
\* thread id included, every key of a run's final state was supplied by
\* that run's caller or written by one of that run's own nodes.
C27_NothingLeftByEarlierRuns ==
    \A r \in RunIds :
        runs[r].pc = "END" =>
            \A k \in DOMAIN runs[r].state :
                \/ k \in DOMAIN initial_state
                \/ \E i \in 1..Len(runs[r].updates) : k \in DOMAIN runs[r].updates[i].update

(***************************************************************************)
(* Properties of contexts, pages and concurrent use of the browser manager *)
(***************************************************************************)
\* positions in browser_events of the events `what` on the object id
Positions(what, id) ==
    {i \in 1..Len(browser_events) :
        browser_events[i].what = what /\ browser_events[i].id = id}

Created(what) ==
    {browser_events[i].id : i \in {j \in 1..Len(browser_events) :
                                      browser_events[j].what = what}}

\* the contexts and pages of the calls that have not ended
Held == {browser_calls[p].context.id : p \in Callers}
          \cup {browser_calls[p].page.id : p \in Callers}

\* C21: every context made by new_context and every page made by new_page
\* is closed exactly once when the body of the `async with` has exited,
\* normally or by an exception; a page is closed before its context; the
\* context is closed also when creating the page in it failed. Nothing is
\* closed twice, and nothing is closed while its body is running.
C21_ClosedExactlyOnce ==
    /\ \A c \in Created("context_created") :
         /\ Cardinality(Positions("context_closed", c)) <= 1
         /\ c \notin Held => Cardinality(Positions("context_closed", c)) = 1
    /\ \A g \in Created("page_created") :
         /\ Cardinality(Positions("page_closed", g)) <= 1
         /\ g \notin Held => Cardinality(Positions("page_closed", g)) = 1
         /\ \A i \in Positions("page_closed", g) :
              \A j \in Positions("context_closed", browser_events[i].parent) : i < j
         /\ \A i \in Positions("page_created", g) :
              /\ Positions("context_created", browser_events[i].parent) # {}
              /\ \A j \in Positions("context_closed", browser_events[i].parent) : i < j
    /\ \A p \in Callers :
         browser_calls[p].pc = "body" =>
            /\ Positions("context_closed", browser_calls[p].context.id) = {}
            /\ Positions("page_closed", browser_calls[p].page.id) = {}
    /\ \A i \in 1..Len(browser_events) :
         /\ browser_events[i].what = "context_closed" =>
              Positions("context_created", browser_events[i].id) # {}
         /\ browser_events[i].what = "page_closed" =>
              Positions("page_created", browser_events[i].id) # {}

C21_Witness ==
    /\ NoCallInProgress
    /\ Len(browser_log) = 3
    /\ browser_log[1].op = "new_page" /\ browser_log[1].body = "raised"
    /\ browser_log[2].op = "new_page" /\ browser_log[2].body = "none"
    /\ browser_log[3].op = "new_context" /\ browser_log[3].body = "exited"
    /\ Cardinality(Created("context_created")) = 3
    /\ Cardinality(Created("page_created")) = 1
    /\ \A c \in Created("context_created") : Positions("context_closed", c) # {}
    /\ \A g \in Created("page_created") : Positions("page_closed", g) # {}

\* the browsers launched and not closed
LiveBrowsers == Created("browser_launched") \ Created("browser_closed")

\* C28: under any interleaving of concurrent start(), new_context() and
\* new_page() calls, at most one launched browser is open at a time, and
\* the manager's _browser refers to it: no launched browser is left
\* without a reference from the manager.
C28_NoBrowserIsLost ==
    /\ Cardinality(LiveBrowsers) <= 1
    /\ \A b \in LiveBrowsers : _browser.id = b

ConcFinished(c) == wrapper_calls[c].pc \in {"returned", "raised"}

\* C24: while a call of retry_with_backoff is suspended in its backoff sleep,
\* every other call that has not finished can take its next step, and every
\* call that was started finishes (returning when its function succeeds),
\* whatever the other calls do.
C24_SleepDoesNotBlockOthers ==
    /\ [](\A c \in CallIds : \A d \in CallIds \ {c} :
            (wrapper_calls[c].pc = "sleeping" /\ ~ConcFinished(d))
              => ENABLED <<ConcStep(d)>>_vars)
    /\ \A c \in CallIds :
         (wrapper_calls[c].pc = "attempt") ~> ConcFinished(c)

\* c2's function succeeded at its first invocation while c1, which has failed
\* at every invocation, is in its last backoff sleep.
C24_Witness ==
    /\ max_retries = MaxRetriesBound
    /\ wrapper_calls["c1"].pc = "sleeping"
    /\ Len(wrapper_calls["c1"].sleeps) = max_retries
    /\ wrapper_calls["c2"].exit_via = "return"
    /\ wrapper_calls["c2"].call_count = 1

OnProject == {"get_project", "update_project", "delete_project",
              "list_project_deliverables"}

\* C29: a user who created a project is not refused by any project operation
\* on it (reading, updating, deleting, listing its deliverables), also when
\* the user has no organisation.
C29_CreatorHasAccess ==
    \A i \in 1..Len(api_log) :
      (/\ api_log[i].op \in OnProject
       /\ api_log[i].row # NoRow
       /\ api_log[i].row.owner_id = api_log[i].user_id)
        => api_log[i].status # 403

\* the messages list of the latest chat_completion request that called the LLM
SentToLlm == llm_request.op = "chat_completion" /\ llm_request.messages # <<>>

====
